---- MODULE Spec2Model ----
(***************************************************************************)
(* Model of the evaluation client of hearts-gym (src/eval_agent.py): the   *)
(* length-prefixed frame transport (_receive_data_shard,                   *)
(* _receive_msg_length, receive_data), the notice loop (wait_for_data),    *)
(* the per-instance multiplexer (_take_indices, _update_indices) and the   *)
(* session loop (main).  The server is the environment: it writes frames   *)
(* to the connection and may close it.  Bytes are integers 0..255.         *)
(***************************************************************************)
EXTENDS Integers, Sequences, FiniteSets, TLC

VARIABLES
    wire,               \* bytes written by the server and not yet read
    closed,             \* the server has closed the connection
    framesSent,         \* number of frames the server has written
    srv,                \* the server's configuration (sent as metadata)
    net,                \* "stream": the server writes ahead and reads return
                        \* any part of what has arrived; "segments": the server
                        \* awaits each reply and reads return all that arrived
    pc,                 \* position of the client in main / wait_for_data
    site,               \* call site of wait_for_data: "handshake" | "round"
    rphase,             \* position inside receive_data: "len" | "body"
    rbuf,               \* b''.join(data) of the receive in progress
    msg_length,         \* declared length of the frame being assembled
    consumed,           \* every byte read by the current receive_data call
    data,               \* value returned by receive_data
    player_index, max_num_games, num_parallel_games,
    states, prev_actions, prev_rewards,
    num_games, num_iters,
    log,                \* events of the connection, in order, from the client's
                        \* latest response to a structured payload on
    outbox,             \* client messages the server has not read yet
    call,               \* the decision call whose actions are in the outbox
    err                 \* the uncaught exception, "" when none

vars == <<wire, closed, framesSent, srv, net, pc, site, rphase, rbuf, msg_length,
          consumed, data, player_index, max_num_games, num_parallel_games,
          states, prev_actions, prev_rewards, num_games, num_iters, log,
          outbox, call, err>>

netVars == <<wire, closed, framesSent, srv, net>>
rxVars  == <<rphase, rbuf, msg_length, consumed, data>>
cfgVars == <<player_index, max_num_games, num_parallel_games>>
slotVars == <<states, prev_actions, prev_rewards>>

-----------------------------------------------------------------------------
(* Bounds of the model *)
MaxFrames == 3          \* frames the server writes in one behaviour
MaxGames == 2           \* largest configured max_num_games
MaxBacklog == 2         \* unread bytes on the wire below which the server writes

(* Protocol constants of hearts_gym.server.utils *)
MAX_RECEIVE_BYTES == 4
MAX_MSG_PREFIX_LENGTH == 4
MSG_LENGTH_SEPARATOR == <<58, 59>>
OK_MSG == "OK"
DECODE_ERROR_NOTICE == "[See decoding error message.]"

None == 0 - 1             \* Python's None: distinct from every index, action, reward and count
NumPlayers == 2

Min(a, b) == IF a < b THEN a ELSE b

-----------------------------------------------------------------------------
(* Byte strings *)

Take(s, n) == SubSeq(s, 1, n)
Drop(s, n) == SubSeq(s, n + 1, Len(s))

\* bytes.find(sub): 0-based index of the first occurrence, -1 when absent
IsAt(s, sub, i) ==
    /\ i + Len(sub) <= Len(s)
    /\ \A j \in 1..Len(sub) : s[i + j] = sub[j]

Find(s, sub) ==
    IF \E i \in 0..Len(s) : IsAt(s, sub, i)
    THEN CHOOSE i \in 0..Len(s) :
            IsAt(s, sub, i) /\ \A k \in 0..(i - 1) : ~IsAt(s, sub, k)
    ELSE -1

\* str(n).encode(): ASCII decimal digits of a natural number
RECURSIVE DecimalDigits(_)
DecimalDigits(n) ==
    IF n < 10 THEN <<48 + n>>
    ELSE Append(DecimalDigits(n \div 10), 48 + (n % 10))

\* int(b): defined on non-empty all-digit strings, ValueError otherwise
IsDecimal(b) == Len(b) > 0 /\ \A i \in 1..Len(b) : b[i] \in 48..57

RECURSIVE ParseInt(_)
ParseInt(b) ==
    IF Len(b) = 0 THEN 0
    ELSE 10 * ParseInt(Take(b, Len(b) - 1)) + (b[Len(b)] - 48)

\* str(player_index): the textual key of a player
Str(i) == <<"0", "1", "2", "3">>[i + 1]

-----------------------------------------------------------------------------
(* Messages.  A notice is a string; the session metadata is a mapping; a   *)
(* round batch is a list of (index, obs) or (index, obs, reward, is_done,  *)
(* info) tuples, all entries of one batch having the same shape.           *)

Players == 0..(NumPlayers - 1)
PlayerKeys == {Str(p) : p \in Players}
ALL_KEY == "__all__"

\* observation mappings (player key -> observation); the second one is
\* another observation and lacks the key of player 1
ObsSeq == << [k \in PlayerKeys |-> "obs"], [k \in {"0"} |-> "obs2"] >>
\* reward mappings (player key -> reward)
RewardSeq == << [k \in PlayerKeys |-> IF k = "0" THEN 1 ELSE 2],
                [k \in PlayerKeys |-> IF k = "0" THEN 2 ELSE 1] >>
\* done mappings
DoneSeq == << [k \in {ALL_KEY} |-> FALSE], [k \in {ALL_KEY} |-> TRUE] >>

Range(f) == {f[x] : x \in DOMAIN f}
IndexOf(seq, x) == CHOOSE i \in 1..Len(seq) : seq[i] = x

Notice(t) == [type |-> "notice", text |-> t]
Metadata(cfg) ==
    [type |-> "metadata", player_index |-> cfg.player_index,
     max_num_games |-> cfg.max_num_games,
     num_parallel_games |-> cfg.num_parallel_games]
Batch(shape, entries) == [type |-> "batch", shape |-> shape, entries |-> entries]

ParallelGames == {1, 2}
Configs ==
    [player_index : Players,
     max_num_games : {None} \cup 1..MaxGames,
     num_parallel_games : ParallelGames]

\* index lists naming distinct instances of 0..n-1, in any order
IndexLists(n) ==
    {ix \in UNION {[1..m -> 0..(n - 1)] : m \in 0..n} :
        \A a, b \in 1..Len(ix) : a # b => ix[a] # ix[b]}

\* the observations of a batch: every entry has every player's key, or the
\* last entry lacks a key
ObsLists(n) ==
    {[k \in 1..n |-> ObsSeq[1]],
     [k \in 1..n |-> IF k = n THEN ObsSeq[2] ELSE ObsSeq[1]]}

ShortBatches(n) ==
    UNION {{Batch(2, [k \in 1..Len(ix) |-> [idx |-> ix[k], obs |-> ob[k]]]) :
                ob \in ObsLists(Len(ix))} : ix \in IndexLists(n)}

\* the instances of one episode-batch end together: one done mapping per batch
ExtBatches(n) ==
    UNION {{Batch(5, [k \in 1..Len(ix) |->
                        [idx |-> ix[k], obs |-> ObsSeq[1], reward |-> rw[k],
                         is_done |-> dn]]) :
                rw \in [1..Len(ix) -> Range(RewardSeq)],
                dn \in Range(DoneSeq)} :
           ix \in IndexLists(n) \ {<< >>}}

Batches(n) == ShortBatches(n) \cup ExtBatches(n)

NoticeTexts == {"msg"}
Messages ==
    {Notice(t) : t \in NoticeTexts} \cup {Metadata(c) : c \in Configs}
        \cup UNION {Batches(n) : n \in ParallelGames}

(* encode_data / decode_data of hearts_gym.server.utils: the payload is the *)
(* compressed JSON text of the message.  It is modelled as an injective    *)
(* byte code with a header byte; byte strings outside the code fail to     *)
(* decode.                                                                 *)
EntryByte(shape, e) ==
    IF shape = 2
    THEN e.idx + 4 * (IndexOf(ObsSeq, e.obs) - 1)
    ELSE e.idx + 4 * (IndexOf(ObsSeq, e.obs) - 1)
             + 8 * (IndexOf(RewardSeq, e.reward) - 1)
             + 16 * (IndexOf(DoneSeq, e.is_done) - 1)

Payload(m) ==
    CASE m.type = "notice" -> <<100>>
      [] m.type = "metadata" ->
            <<101, m.player_index + 4 * m.num_parallel_games
                   + 16 * (IF m.max_num_games = None THEN 0 ELSE m.max_num_games)>>
      [] m.type = "batch" ->
            <<(IF m.shape = 2 THEN 102 ELSE 103)>>
                \o [k \in 1..Len(m.entries) |-> EntryByte(m.shape, m.entries[k])]

\* a payload that is not the code of any message
GARBAGE == <<99>>
\* a payload of MAX_RECEIVE_BYTES bytes: too long for a one-instance session
OVERSIZED == [k \in 1..MAX_RECEIVE_BYTES |-> 99]

decode_ok(payload) == \E m \in Messages : Payload(m) = payload
decode_data(payload) == CHOOSE m \in Messages : Payload(m) = payload

\* a frame: <decimal length><separator><payload bytes>
Frame(payload) ==
    DecimalDigits(Len(payload)) \o MSG_LENGTH_SEPARATOR \o payload

-----------------------------------------------------------------------------
(* receive_data and _receive_msg_length, between two blocking reads *)

Fatal(e) == [kind |-> "fatal", err |-> e]
\* an exception of receive_data once msg_length is assigned (line 183)
FatalWith(e, length, buf) ==
    [kind |-> "fatal", err |-> e, msg_length |-> length, buf |-> buf]
Return(d, length, buf) ==
    [kind |-> "return", data |-> d, msg_length |-> length, buf |-> buf]

\* AssemblePayload without the except clause of lines 199-202
AssemblePayload_Raise(length, buf) ==
    IF Len(buf) < length
    THEN [kind |-> "body", buf |-> buf, msg_length |-> length]
    ELSE IF Len(buf) # length
    THEN FatalWith("AssertionError: message does not match length", length, buf)
    ELSE IF decode_ok(buf) THEN Return(decode_data(buf), length, buf)
    ELSE FatalWith("zlib.error", length, buf)

\* AssemblePayload without the assertion of lines 193-194
AssemblePayload_NoLengthCheck(length, buf) ==
    IF Len(buf) < length
    THEN [kind |-> "body", buf |-> buf, msg_length |-> length]
    ELSE Return(IF decode_ok(buf) THEN decode_data(buf)
                ELSE Notice(DECODE_ERROR_NOTICE), length, buf)

\* lines 188-203: the payload loop test, the length assertion and decoding
AssemblePayload(length, buf) ==
    IF Len(buf) < length
    THEN [kind |-> "body", buf |-> buf, msg_length |-> length]
    ELSE IF Len(buf) # length
    THEN FatalWith("AssertionError: message does not match length", length, buf)
    ELSE Return(IF decode_ok(buf) THEN decode_data(buf)
                ELSE Notice(DECODE_ERROR_NOTICE), length, buf)

\* lines 183-187: the size bound on the declared length
StartPayload(length, extra, max_total_receive_bytes) ==
    IF ~(length < max_total_receive_bytes)
    THEN FatalWith("AssertionError: message is too long", length, extra)
    ELSE AssemblePayload(length, extra)

\* lines 140-159: one shard of the length prefix has arrived; buf holds the
\* shards before it
LengthShard(buf, data_shard, max_total_receive_bytes) ==
    LET total_num_received_bytes == Len(buf) + Len(data_shard)
        length_end == Find(data_shard, MSG_LENGTH_SEPARATOR)
    IN  IF length_end = -1
        THEN IF total_num_received_bytes < MAX_MSG_PREFIX_LENGTH
             THEN [kind |-> "len", buf |-> buf \o data_shard]
             ELSE Fatal("AssertionError: server did not send message length")
        ELSE LET le == length_end + total_num_received_bytes - Len(data_shard)
                 joined == buf \o data_shard
                 prefix == Take(joined, le)
                 extra_data == Drop(joined, le + Len(MSG_LENGTH_SEPARATOR))
             IN  IF ~IsDecimal(prefix)
                 THEN Fatal("ValueError: invalid literal for int()")
                 ELSE StartPayload(ParseInt(prefix), extra_data,
                                   max_total_receive_bytes)

\* lines 189-191: one shard of the payload has arrived
PayloadShard(buf, data_shard, length) ==
    AssemblePayload(length, buf \o data_shard)

\* _is_done -> HeartsRequestHandler.is_done
_is_done(games, max_games) == max_games # None /\ games >= max_games

\* _take_indices reading the slots in slot order instead of batch order
_take_indices_BySlot(values, indices) ==
    [k \in 1..Len(indices) |-> values[k - 1]]

\* _take_indices (line 249)
_take_indices(values, indices) == [k \in 1..Len(indices) |-> values[indices[k]]]

\* Scatter writing at the position in the batch instead of the index
RECURSIVE Scatter_ByPosition(_, _, _, _)
Scatter_ByPosition(values, indices, new_values, k) ==
    IF k > Len(indices) \/ k > Len(new_values) THEN values
    ELSE Scatter_ByPosition([values EXCEPT ![k - 1] = new_values[k]],
                            indices, new_values, k + 1)

\* the for loop of _update_indices (lines 268-269), from position k on
RECURSIVE Scatter(_, _, _, _)
Scatter(values, indices, new_values, k) ==
    IF k > Len(indices) \/ k > Len(new_values) THEN values
    ELSE Scatter([values EXCEPT ![indices[k]] = new_values[k]],
                 indices, new_values, k + 1)

\* _update_indices checking the lengths after the loop instead of before
_update_indices_CheckLast(values, indices, new_values) ==
    [ok |-> Len(indices) = Len(new_values),
     values |-> Scatter(values, indices, new_values, 1)]

\* _update_indices (lines 266-269): the result, or the failed assertion
_update_indices(values, indices, new_values) ==
    IF Len(indices) # Len(new_values)
    THEN [ok |-> FALSE, values |-> values]
    ELSE [ok |-> TRUE, values |-> Scatter(values, indices, new_values, 1)]

-----------------------------------------------------------------------------
(* The opaque collaborators *)

INITIAL_STATE == "s0"               \* utils.get_initial_state
Lists(S, n) == [1..n -> S]

\* utils.compute_actions: per observation an action and a new state, or a
\* list that is one element too long
Decisions == {[action |-> 1, state |-> "s1"], [action |-> 2, state |-> "s2"]}
DecisionResults(n) ==
    {[actions |-> [k \in 1..n |-> d[k].action],
      new_states |-> [k \in 1..n |-> d[k].state]] : d \in Lists(Decisions, n)}
    \cup {[actions |-> [k \in 1..(n + 1) |-> 1], new_states |-> [k \in 1..n |-> "s1"]],
          [actions |-> [k \in 1..n |-> 1], new_states |-> [k \in 1..(n + 1) |-> "s1"]]}

\* a message of the client on its way to the server
Sent(kind, actions) == [kind |-> kind, actions |-> actions]

NoData == [type |-> "none"]
NoCall == [made |-> FALSE]
\* History replaced by None only when every selected slot is undefined
History_AllUndefined(masked) ==
    IF \A k \in 1..Len(masked) : masked[k] = None
    THEN [none |-> TRUE, list |-> << >>]
    ELSE [none |-> FALSE, list |-> masked]

\* a history argument of the decision function: the list, or None
History(masked) ==
    IF \E k \in 1..Len(masked) : masked[k] = None
    THEN [none |-> TRUE, list |-> << >>]
    ELSE [none |-> FALSE, list |-> masked]


-----------------------------------------------------------------------------
\* the state at line 292: the name has been sent, wait_for_data is entered
InitWith(sessions, network) ==
    /\ srv \in sessions
    /\ net = network
    /\ wire = << >>
    /\ closed = FALSE
    /\ framesSent = 0
    /\ pc = "receive"
    /\ site = "handshake"
    /\ rphase = "len"
    /\ rbuf = << >>
    /\ msg_length = 0
    /\ consumed = << >>
    /\ data = NoData
    /\ player_index = None
    /\ max_num_games = None
    /\ num_parallel_games = None
    /\ states = << >>
    /\ prev_actions = << >>
    /\ prev_rewards = << >>
    /\ num_games = 0
    /\ num_iters = 0
    /\ log = <<"send_name">>
    /\ outbox = <<Sent("name", << >>)>>
    /\ call = NoCall
    /\ err = ""

(* The server *)

ServerPayloads ==
    {Payload(m) : m \in {Notice(t) : t \in NoticeTexts} \cup {Metadata(srv)}
                          \cup Batches(srv.num_parallel_games)}
        \cup {GARBAGE, OVERSIZED}

\* a frame whose decimal length is padded with leading zeros to more than
\* MAX_MSG_PREFIX_LENGTH digits
PaddedFrame(payload) ==
    [k \in 1..MAX_MSG_PREFIX_LENGTH |-> 48] \o Frame(payload)

ServerFrames == {Frame(p) : p \in ServerPayloads} \cup {PaddedFrame(GARBAGE)}

\* The client observes the connection only inside recv: the server's steps
\* are taken while the client is blocked there.
Connected == pc = "receive"

\* the server writes one frame, having read what the client sent
ServerSend ==
    /\ Connected
    /\ ~closed
    /\ framesSent < MaxFrames
    /\ IF net = "stream" THEN Len(wire) <= MaxBacklog ELSE outbox # << >>
    /\ \E frame \in ServerFrames : wire' = wire \o frame
    /\ framesSent' = framesSent + 1
    /\ outbox' = << >>
    /\ call' = NoCall
    /\ UNCHANGED <<closed, srv, net, pc, site, rxVars, cfgVars, slotVars,
                   num_games, num_iters, log, err>>

\* the server stops; in a stream the bytes not yet transmitted may be lost
ServerClose ==
    /\ Connected
    /\ ~closed
    /\ closed' = TRUE
    /\ \/ wire' = wire
       \/ net = "stream" /\ wire' = << >>
    /\ UNCHANGED <<framesSent, srv, net, pc, site, rxVars, cfgVars,
                   slotVars, num_games, num_iters, log, outbox, call, err>>

(* The client *)

max_total_receive_bytes ==
    IF site = "handshake" THEN MAX_RECEIVE_BYTES
    ELSE MAX_RECEIVE_BYTES * num_parallel_games

\* sizes of the shard client.recv(max_receive_bytes) may return
ShardSizes ==
    IF net = "stream" THEN 1..Min(MAX_RECEIVE_BYTES, Len(wire))
    ELSE {Min(MAX_RECEIVE_BYTES, Len(wire))} \ {0}

\* the event of receive_data returning d
Received(d) ==
    IF d.type # "notice" THEN "recv_data"
    ELSE IF d.text = DECODE_ERROR_NOTICE THEN "recv_failed" ELSE "recv_notice"

\* the state after the code that follows a read, up to the next read
Continue(o, shard) ==
    /\ consumed' = consumed \o shard
    /\ CASE o.kind = "len" ->
                /\ rphase' = "len" /\ rbuf' = o.buf
                /\ UNCHANGED <<msg_length, pc, data, log, err>>
         [] o.kind = "body" ->
                /\ rphase' = "body" /\ rbuf' = o.buf
                /\ msg_length' = o.msg_length
                /\ UNCHANGED <<pc, data, log, err>>
         [] o.kind = "return" ->
                /\ pc' = "wait_for_data"
                /\ data' = o.data
                /\ rbuf' = o.buf
                /\ msg_length' = o.msg_length
                /\ log' = Append(log, Received(o.data))
                /\ UNCHANGED <<rphase, err>>
         [] o.kind = "fatal" ->
                /\ pc' = "fatal"
                /\ err' = o.err
                /\ IF "msg_length" \in DOMAIN o
                   THEN rbuf' = o.buf /\ msg_length' = o.msg_length
                   ELSE UNCHANGED <<rbuf, msg_length>>
                /\ UNCHANGED <<rphase, data, log>>

\* client.recv inside _receive_msg_length (lines 139, 147)
ReceiveMsgLength ==
    /\ pc = "receive" /\ rphase = "len"
    /\ \E n \in ShardSizes :
          /\ wire' = Drop(wire, n)
          /\ Continue(LengthShard(rbuf, Take(wire, n), max_total_receive_bytes),
                      Take(wire, n))
    /\ UNCHANGED <<closed, framesSent, srv, net, site, cfgVars, slotVars,
                   num_games, num_iters, outbox, call>>

\* client.recv inside the payload loop of receive_data (line 189)
ReceivePayload ==
    /\ pc = "receive" /\ rphase = "body"
    /\ \E n \in ShardSizes :
          /\ wire' = Drop(wire, n)
          /\ Continue(PayloadShard(rbuf, Take(wire, n), msg_length),
                      Take(wire, n))
    /\ UNCHANGED <<closed, framesSent, srv, net, site, cfgVars, slotVars,
                   num_games, num_iters, outbox, call>>

\* ServerStopped raising instead of exiting with status 0
ServerStopped_Error ==
    /\ pc = "receive"
    /\ closed /\ wire = << >>
    /\ pc' = "fatal"
    /\ err' = "ConnectionError"
    /\ UNCHANGED <<netVars, site, rxVars, cfgVars, slotVars,
                   num_games, num_iters, log, outbox, call>>

\* client.recv returns b'' (lines 111-113): sys.exit(0)
ServerStopped ==
    /\ pc = "receive"
    /\ closed /\ wire = << >>
    /\ pc' = "exit"
    /\ log' = Append(log, "eof")
    /\ UNCHANGED <<netVars, site, rxVars, cfgVars, slotVars,
                   num_games, num_iters, outbox, call, err>>

\* client.recv raises socket.timeout (lines 107-109)
ReceiveTimeout ==
    /\ pc = "receive"
    /\ ~closed /\ wire = << >>
    /\ pc' = "fatal"
    /\ err' = "socket.timeout"
    /\ UNCHANGED <<netVars, site, rxVars, cfgVars, slotVars,
                   num_games, num_iters, log, outbox, call>>

\* the start of a receive_data call
StartReceive ==
    /\ pc' = "receive"
    /\ rphase' = "len"
    /\ rbuf' = << >>
    /\ msg_length' = 0
    /\ consumed' = << >>
    /\ data' = NoData

\* server_utils.send_ok, acknowledging a notice
send_ok ==
    /\ log' = Append(log, "send_ok")
    /\ outbox' = Append(outbox, Sent(OK_MSG, << >>))

\* server_utils.send_ok, answering a structured payload
respond_ok ==
    /\ log' = <<"send_ok">>
    /\ outbox' = Append(outbox, Sent(OK_MSG, << >>))

\* server_utils.send_actions, answering a round batch
send_actions(actions) ==
    /\ log' = <<"send_actions">>
    /\ outbox' = Append(outbox, Sent("actions", actions))

\* WaitForData acknowledging every message, structured payloads included
WaitForData_AckAll ==
    /\ pc = "wait_for_data"
    /\ send_ok
    /\ IF data.type = "notice"
       THEN StartReceive
       ELSE /\ pc' = IF site = "handshake" THEN "main_metadata" ELSE "main_round"
            /\ UNCHANGED rxVars
    /\ UNCHANGED <<netVars, site, cfgVars, slotVars, num_games,
                   num_iters, call, err>>

\* WaitForData reading on after a notice without acknowledging it
WaitForData_SilentNotice ==
    /\ pc = "wait_for_data"
    /\ IF data.type = "notice"
       THEN /\ StartReceive
            /\ UNCHANGED <<log, outbox>>
       ELSE /\ pc' = IF site = "handshake" THEN "main_metadata" ELSE "main_round"
            /\ UNCHANGED <<log, outbox, rxVars>>
    /\ UNCHANGED <<netVars, site, cfgVars, slotVars, num_games,
                   num_iters, call, err>>

\* wait_for_data, lines 229-233
WaitForData ==
    /\ pc = "wait_for_data"
    /\ IF data.type = "notice"
       THEN /\ send_ok
            /\ StartReceive
       ELSE /\ pc' = IF site = "handshake" THEN "main_metadata" ELSE "main_round"
            /\ UNCHANGED <<log, outbox, rxVars>>
    /\ UNCHANGED <<netVars, site, cfgVars, slotVars, num_games,
                   num_iters, call, err>>

\* main, lines 297-348
MainMetadata ==
    /\ pc = "main_metadata"
    /\ IF data.type = "metadata"
       THEN /\ player_index' = data.player_index
            /\ max_num_games' = data.max_num_games
            /\ num_parallel_games' = data.num_parallel_games
            /\ respond_ok
            /\ pc' = "main_while"
            /\ UNCHANGED err
       ELSE /\ pc' = "fatal"
            /\ err' = "TypeError: list indices must be integers"
            /\ UNCHANGED <<cfgVars, log, outbox>>
    /\ num_iters' = 0
    /\ num_games' = 0
    /\ UNCHANGED <<netVars, site, rxVars, slotVars, call>>

\* MainWhile leaving the loop only when the counter equals the maximum
MainWhile_UntilExact ==
    /\ pc = "main_while"
    /\ IF max_num_games # None /\ num_games = max_num_games
       THEN /\ pc' = "done"
            /\ UNCHANGED <<site, rxVars, slotVars>>
       ELSE /\ states' = [i \in 0..(num_parallel_games - 1) |-> INITIAL_STATE]
            /\ prev_actions' = [i \in 0..(num_parallel_games - 1) |-> None]
            /\ prev_rewards' = [i \in 0..(num_parallel_games - 1) |-> None]
            /\ site' = "round"
            /\ StartReceive
    /\ UNCHANGED <<netVars, cfgVars, num_games, num_iters, log, outbox,
                   call, err>>

\* MainWhile creating the slots once, before the first episode-batch only
MainWhile_ResetOnce ==
    /\ pc = "main_while"
    /\ IF _is_done(num_games, max_num_games)
       THEN /\ pc' = "done"
            /\ UNCHANGED <<site, rxVars, slotVars>>
       ELSE /\ IF num_iters = 0
               THEN /\ states' = [i \in 0..(num_parallel_games - 1) |-> INITIAL_STATE]
                    /\ prev_actions' = [i \in 0..(num_parallel_games - 1) |-> None]
                    /\ prev_rewards' = [i \in 0..(num_parallel_games - 1) |-> None]
               ELSE UNCHANGED slotVars
            /\ site' = "round"
            /\ StartReceive
    /\ UNCHANGED <<netVars, cfgVars, num_games, num_iters, log, outbox,
                   call, err>>

\* main, lines 349-357: the loop test and the reset of the slots
MainWhile ==
    /\ pc = "main_while"
    /\ IF _is_done(num_games, max_num_games)
       THEN /\ pc' = "done"
            /\ UNCHANGED <<site, rxVars, slotVars>>
       ELSE /\ states' = [i \in 0..(num_parallel_games - 1) |-> INITIAL_STATE]
            /\ prev_actions' = [i \in 0..(num_parallel_games - 1) |-> None]
            /\ prev_rewards' = [i \in 0..(num_parallel_games - 1) |-> None]
            /\ site' = "round"
            /\ StartReceive
    /\ UNCHANGED <<netVars, cfgVars, num_games, num_iters, log, outbox,
                   call, err>>

\* MainBatchEnd counting one game per episode-batch
MainBatchEnd_CountOne ==
    /\ pc = "main_batch_end"
    /\ respond_ok
    /\ num_games' = num_games + 1
    /\ num_iters' = num_iters + 1
    /\ pc' = "main_while"
    /\ UNCHANGED <<netVars, site, rxVars, cfgVars, slotVars, call, err>>

\* MainBatchEnd without the acknowledgment of line 413
MainBatchEnd_NoAck ==
    /\ pc = "main_batch_end"
    /\ num_games' = num_games + num_parallel_games
    /\ num_iters' = num_iters + 1
    /\ pc' = "main_while"
    /\ UNCHANGED <<netVars, site, rxVars, cfgVars, slotVars, call, err,
                   log, outbox>>

\* main, lines 413-415
MainBatchEnd ==
    /\ pc = "main_batch_end"
    /\ respond_ok
    /\ num_games' = num_games + num_parallel_games
    /\ num_iters' = num_iters + 1
    /\ pc' = "main_while"
    /\ UNCHANGED <<netVars, site, rxVars, cfgVars, slotVars, call, err>>

\* OwnRewards reading the component of seat 0 whatever the client's seat
OwnRewards_Seat0(entries, key) ==
    [k \in 1..Len(entries) |-> entries[k].reward[Str(0)]]

\* main, lines 374-377: this client's component of every entry's reward
OwnRewards(entries, key) == [k \in 1..Len(entries) |-> entries[k].reward[key]]

\* main, lines 382-411: the decision call, the send and the scatter, with
\* prev_rewards already holding pr
Decide(entries, indices, pr) ==
    LET key == Str(player_index) IN
    IF \E k \in 1..Len(entries) : key \notin DOMAIN entries[k].obs
    THEN /\ pc' = "fatal"
         /\ err' = "AssertionError: received wrong data"
         /\ call' = NoCall
         /\ UNCHANGED <<states, prev_actions, log, outbox, rxVars>>
    ELSE \E r \in DecisionResults(Len(entries)) :
         LET masked_prev_actions == _take_indices(prev_actions, indices)
             masked_prev_rewards == _take_indices(pr, indices)
             u1 == _update_indices(states, indices, r.new_states)
             u2 == _update_indices(prev_actions, indices, r.actions)
         IN  /\ call' = [made |-> TRUE,
                         indices |-> indices,
                         obss |-> [k \in 1..Len(entries) |-> entries[k].obs[key]],
                         states |-> _take_indices(states, indices),
                         prev_actions |-> History(masked_prev_actions),
                         prev_rewards |-> History(masked_prev_rewards),
                         actions |-> r.actions,
                         new_states |-> r.new_states]
             /\ send_actions(r.actions)
             /\ states' = u1.values
             /\ prev_actions' = IF u1.ok THEN u2.values ELSE prev_actions
             /\ IF u1.ok /\ u2.ok
                THEN StartReceive /\ UNCHANGED err
                ELSE /\ pc' = "fatal"
                     /\ err' = "AssertionError: length of indices to update and values to update with must match"
                     /\ UNCHANGED rxVars

\* main, lines 366-411: one round of the multiplexer
MainRound ==
    /\ pc = "main_round"
    /\ IF data.type # "batch"
       THEN /\ pc' = "fatal"
            /\ err' = "KeyError: 0"
            /\ call' = NoCall
            /\ UNCHANGED <<slotVars, log, outbox, rxVars>>
       ELSE
       LET entries == data.entries
           indices == [k \in 1..Len(entries) |-> entries[k].idx]
       IN  IF Len(entries) = 0
           THEN \* line 368, then data[0] at line 370
                /\ send_actions(<< >>)
                /\ pc' = "fatal"
                /\ err' = "IndexError: list index out of range"
                /\ call' = NoCall
                /\ UNCHANGED <<slotVars, rxVars>>
           ELSE IF data.shape < 4
           THEN /\ Decide(entries, indices, prev_rewards)
                /\ UNCHANGED prev_rewards
           ELSE LET rewards == OwnRewards(entries, Str(player_index))
                    pr == _update_indices(prev_rewards, indices, rewards).values
                IN  /\ prev_rewards' = pr
                    /\ IF entries[1].is_done[ALL_KEY]
                       THEN /\ pc' = "main_batch_end"
                            /\ call' = NoCall
                            /\ UNCHANGED <<states, prev_actions, log, outbox,
                                           err, rxVars>>
                       ELSE Decide(entries, indices, pr)
    /\ UNCHANGED <<netVars, site, cfgVars, num_games, num_iters>>

Next ==
    \/ ServerSend
    \/ ServerClose
    \/ ReceiveMsgLength
    \/ ReceivePayload
    \/ ServerStopped
    \/ ReceiveTimeout
    \/ WaitForData
    \/ MainMetadata
    \/ MainWhile
    \/ MainRound
    \/ MainBatchEnd

\* sessions with a server that follows the protocol
Init == InitWith(Configs, "segments")
Spec == Init /\ [][Next]_vars

\* single-instance sessions over a byte stream with a server writing ahead
InitStream ==
    InitWith({c \in Configs : c.num_parallel_games = 1 /\ c.max_num_games # None},
             "stream")
SpecStream == InitStream /\ [][Next]_vars

-----------------------------------------------------------------------------
(* Vocabulary of the properties *)

IsPrefix(a, b) == Len(a) <= Len(b) /\ a = Take(b, Len(a))
Last(s) == s[Len(s)]

\* the message a payload stands for
Decoded(payload) ==
    IF decode_ok(payload) THEN decode_data(payload)
    ELSE Notice(DECODE_ERROR_NOTICE)

\* the receive_data call has returned, or has failed with an exception
Returned == pc = "wait_for_data"
ReceiveFailed == pc = "fatal" /\ data = NoData /\ err # "socket.timeout"

\* the slots that exist
Slots == IF num_parallel_games = None THEN {} ELSE 0..(num_parallel_games - 1)
BatchIndices == {data.entries[k].idx : k \in 1..Len(data.entries)}

-----------------------------------------------------------------------------
(* C1: framing round trip.  Whenever a receive_data call has ended after    *)
(* reading shards that are a splitting of the frame of a payload P (or of a *)
(* beginning of it), it has read the whole frame and returned the decoded P.*)
C1_FramingRoundTrip ==
    \A p \in ServerPayloads :
        ((Returned \/ ReceiveFailed) /\ consumed # << >>
            /\ IsPrefix(consumed, Frame(p)))
        => (Returned /\ consumed = Frame(p) /\ data = Decoded(p))

(* C2: length-prefix robustness.  When the shards read so far end strictly  *)
(* inside the separator of the frame of P and the rest of the frame is on   *)
(* the wire, the next read finds the separator: the call does not fail, the *)
(* declared length is Len(P) and the carried-forward bytes begin P.         *)
SplitInsideSeparator(p) ==
    /\ pc = "receive" /\ rphase = "len"
    /\ rbuf = Take(Frame(p), Len(DecimalDigits(Len(p))) + 1)
    /\ wire # << >>
    /\ IsPrefix(wire, Drop(Frame(p), Len(rbuf)))

C2_SeparatorSplitFound ==
    [][\A p \in ServerPayloads :
        (SplitInsideSeparator(p) /\ wire' # wire /\ ~closed')
        => /\ pc' # "fatal"
           /\ ~(pc' = "receive" /\ rphase' = "len")
           /\ (rphase' = "body" /\ pc' = "receive")
                 => (msg_length' = Len(p) /\ IsPrefix(rbuf', p))
           /\ pc' = "wait_for_data" => data' = Decoded(p)]_vars

(* C3: frame boundary preservation.  When a receive_data call has found the *)
(* length prefix and has read a shard reaching past the end of the frame of *)
(* P, it returns the decoded P (the bytes past the frame being kept for the *)
(* next call).                                                              *)
C3_FrameBoundaryKept ==
    \A p \in ServerPayloads :
        ((Returned \/ ReceiveFailed)
            /\ IsPrefix(Frame(p), consumed) /\ Len(consumed) > Len(Frame(p))
            /\ err # "AssertionError: server did not send message length")
        => (Returned /\ data = Decoded(p))

(* C4: strict request/response alternation.  The first event since the     *)
(* client's latest response is that response; every later send is one      *)
(* acknowledgment directly after a notice; every receive directly follows  *)
(* a send; a structured payload is followed by nothing but its response;   *)
(* and a response is sent only directly after a structured payload.        *)
IsSend(e) == e \in {"send_name", "send_ok", "send_actions"}
IsNoticeEvent(e) == e \in {"recv_notice", "recv_failed"}

LogAlternates ==
    /\ Len(log) >= 1 /\ IsSend(log[1])
    /\ \A i \in 2..Len(log) :
          /\ IsSend(log[i]) => (log[i] = "send_ok" /\ IsNoticeEvent(log[i - 1]))
          /\ ~IsSend(log[i]) => IsSend(log[i - 1])

C4_Alternation ==
    /\ []LogAlternates
    /\ [][(Len(log') = 1 /\ log' # log) => Last(log) = "recv_data"]_vars

C4_Witness ==
    /\ site = "round"
    /\ log = <<"send_ok", "recv_notice", "send_ok", "recv_data">>

(* C5: empty round batch.  The round of an empty batch sends one empty     *)
(* action list, makes no decision call, leaves every slot alone and goes   *)
(* on to wait for the next message.                                        *)
C5_EmptyBatchContinues ==
    [][(pc = "main_round" /\ data.type = "batch" /\ Len(data.entries) = 0)
        => /\ pc' = "receive"
           /\ outbox' = Append(outbox, Sent("actions", << >>))
           /\ call' = NoCall
           /\ UNCHANGED slotVars]_vars

(* C6: multiplexer index integrity.  A round leaves the decision-state,    *)
(* the previous action and the previous reward of every slot that the      *)
(* batch does not name as they were.                                       *)
C6_IndexIntegrity ==
    [][(pc = "main_round" /\ data.type = "batch")
        => \A i \in Slots \ BatchIndices :
              /\ states'[i] = states[i]
              /\ prev_actions'[i] = prev_actions[i]
              /\ prev_rewards'[i] = prev_rewards[i]]_vars

\* a round on one of two slots has been processed while the other slot
\* holds what an earlier round wrote
C6_Witness ==
    /\ num_parallel_games = 2
    /\ call.made /\ Len(call.indices) = 1
    /\ \E i \in Slots \ {call.indices[1]} :
          states[i] # INITIAL_STATE /\ prev_actions[i] # None
    /\ states[call.indices[1]] # INITIAL_STATE

(* C7: delayed-reward alignment.  After the round of an extended batch the *)
(* previous-reward slot of the k-th entry's index holds the k-th entry's   *)
(* reward component under the key of this client's player index, and a     *)
(* decision call made in that round receives these values as previous      *)
(* rewards, in batch order.                                                *)
C7_RewardAlignment ==
    [][(pc = "main_round" /\ data.type = "batch" /\ Len(data.entries) > 0
            /\ data.shape = 5)
        => \A k \in 1..Len(data.entries) :
              LET own == data.entries[k].reward[Str(player_index)]
              IN  /\ prev_rewards'[data.entries[k].idx] = own
                  /\ call'.made => (~call'.prev_rewards.none
                                    /\ call'.prev_rewards.list[k] = own)]_vars

\* two entries carrying different rewards have been scattered and passed on
C7_Witness ==
    /\ call.made /\ Len(call.indices) = 2
    /\ ~call.prev_rewards.none
    /\ call.prev_rewards.list[1] # call.prev_rewards.list[2]
    /\ player_index = 1
    /\ prev_rewards[call.indices[1]] = call.prev_rewards.list[1]

(* C8: termination counting.  With max_num_games = K a multiple of         *)
(* num_parallel_games = N, the loop never runs more than K/N               *)
(* episode-batches, has run exactly K/N when it has exited, and once K/N   *)
(* batches are acknowledged the client is at the loop test or past it (no  *)
(* receive, no send).  Without a maximum the loop does not exit.           *)
C8_TerminationCounting ==
    num_parallel_games # None =>
        /\ pc = "done" => max_num_games # None
        /\ (max_num_games # None /\ max_num_games % num_parallel_games = 0)
            => /\ num_iters * num_parallel_games <= max_num_games
               /\ pc = "done" => num_iters * num_parallel_games = max_num_games
               /\ num_iters * num_parallel_games = max_num_games
                     => pc \in {"main_while", "done"}

C8_Witness == pc = "done" /\ num_iters = 2 /\ num_parallel_games = 1

(* C9: graceful shutdown.  When the client is in a read, the server has    *)
(* stopped and no byte is left, the next step ends the process with        *)
(* success status and without a send; an ended process takes no step.      *)
C9_GracefulShutdown ==
    [][/\ (pc = "receive" /\ closed /\ wire = << >>)
            => (pc' = "exit" /\ err' = "" /\ outbox' = outbox)
       /\ pc # "exit"]_vars

\* the zero-byte read came during payload assembly in an episode-batch
C9_Witness == pc = "exit" /\ rphase = "body" /\ site = "round"

(* C10: decode-failure isolation.  A call that has read the frame of an    *)
(* undecodable payload returns the sentinel notice; wait_for_data          *)
(* acknowledges it and starts the next receive, changing no slot and no    *)
(* counter; every frame returned afterwards is returned as its decoded     *)
(* payload; no read changes a slot or a counter.                           *)
Sentinel == Notice(DECODE_ERROR_NOTICE)

C10_DecodeFailureIsolation ==
    /\ [](((Returned \/ ReceiveFailed) /\ consumed = Frame(GARBAGE))
            => (Returned /\ data = Sentinel))
    /\ [](Returned => \E p \in ServerPayloads :
                        consumed = Frame(p) /\ data = Decoded(p))
    /\ [][(pc = "wait_for_data" /\ data = Sentinel)
            => /\ pc' = "receive" /\ rphase' = "len" /\ consumed' = << >>
               /\ log' = Append(log, "send_ok")
               /\ UNCHANGED <<slotVars, cfgVars, num_games, num_iters>>]_vars
    /\ [][pc = "receive" => UNCHANGED <<slotVars, cfgVars, num_games, num_iters>>]_vars

\* a batch has been returned after a decode failure was acknowledged
C10_Witness ==
    /\ Returned /\ data.type = "batch"
    /\ log = <<"send_ok", "recv_failed", "send_ok", "recv_data">>

(* C11: notice handling.  When wait_for_data returns, the events since the *)
(* client's latest response are that response, then for each of the k >= 0 *)
(* notices its receipt directly followed by one acknowledgment, then the   *)
(* receipt of the structured message, which is the value returned.  Each   *)
(* step of wait_for_data on a notice sends exactly one acknowledgment and  *)
(* starts the next read; its step on a structured message sends nothing.   *)
NoticeRun(l) ==
    /\ Len(l) % 2 = 1
    /\ \A i \in 2..Len(l) :
          IF i % 2 = 0 THEN IsNoticeEvent(l[i]) ELSE l[i] = "send_ok"

C11_NoticeHandling ==
    /\ [](pc \in {"main_metadata", "main_round"}
            => /\ data.type \notin {"notice", "none"}
               /\ Last(log) = "recv_data"
               /\ NoticeRun(Take(log, Len(log) - 1)))
    /\ [][pc = "wait_for_data"
            => IF data.type = "notice"
               THEN /\ outbox' = Append(outbox, Sent(OK_MSG, << >>))
                    /\ log' = Append(log, "send_ok")
                    /\ pc' = "receive" /\ consumed' = << >>
               ELSE /\ outbox' = outbox /\ log' = log /\ data' = data
                    /\ pc' \in {"main_metadata", "main_round"}]_vars

\* two notices were acknowledged before the metadata was returned
C11_Witness ==
    /\ pc = "main_metadata"
    /\ log = <<"send_name", "recv_notice", "send_ok",
               "recv_failed", "send_ok", "recv_data">>

(* C12: one decision call per round, order preserved.  The round of a      *)
(* non-empty batch that does not carry the completion signal and whose     *)
(* observations all hold this client's key makes one decision call on the  *)
(* whole batch: its indices, observations and decision-states are those of *)
(* the batch's entries in batch order; the action list sent is the list    *)
(* returned; and when one action and one state per index were returned,    *)
(* the slot of the k-th index holds the k-th action and the k-th state.    *)
DecisionRound ==
    /\ pc = "main_round" /\ data.type = "batch" /\ Len(data.entries) > 0
    /\ ~(data.shape = 5 /\ data.entries[1].is_done[ALL_KEY])
    /\ \A k \in 1..Len(data.entries) :
          Str(player_index) \in DOMAIN data.entries[k].obs

WholeHistory(arg, slots, ix) ==
    /\ arg.none <=> \E k \in 1..Len(ix) : slots[ix[k]] = None
    /\ ~arg.none => /\ arg.list = [k \in 1..Len(ix) |-> slots[ix[k]]]
                    /\ \A k \in 1..Len(arg.list) : arg.list[k] # None

C13_NoPartialHistory ==
    [][(pc = "main_round" /\ call'.made)
        => /\ WholeHistory(call'.prev_actions, prev_actions, call'.indices)
           /\ WholeHistory(call'.prev_rewards, prev_rewards', call'.indices)]_vars

\* a call on a slot that has a previous action and a slot that has none:
\* the previous actions are withheld while the previous rewards are passed
C13_Witness ==
    /\ call.made /\ Len(call.indices) = 2
    /\ call.states[1] # INITIAL_STATE /\ call.states[2] = INITIAL_STATE
    /\ call.prev_actions.none
    /\ ~call.prev_rewards.none

(* C14: response alignment.  Whatever a round of the multiplexer sends is  *)
(* one action list with exactly one action per entry of the batch it       *)
(* answers, whatever the decision function returned.                       *)
C14_ResponseAligned ==
    [][(pc = "main_round" /\ data.type = "batch" /\ outbox' # outbox)
        => /\ outbox' = Append(outbox, Last(outbox'))
           /\ Last(outbox').kind = "actions"
           /\ Len(Last(outbox').actions) = Len(data.entries)]_vars

(* C15: frame acceptance condition.  receive_data returns a message only   *)
(* when the declared length is strictly below the maximum total size and   *)
(* the payload bytes assembled are exactly that many, and the message is   *)
(* the decoding of those bytes; it reads payload shards only while fewer   *)
(* bytes than an admissible declared length are assembled.  The declared   *)
(* length is the decimal number before the separator; when it is at or     *)
(* above the maximum the step that finds it fails, with no message and no  *)
(* further read; an assembled count different from the declared length     *)
(* ends the call with a failure and no message.                            *)
TOO_LONG == "AssertionError: message is too long"
LENGTH_MISMATCH == "AssertionError: message does not match length"

DeclaredLength(bytes) ==
    ParseInt(Take(bytes, Find(bytes, MSG_LENGTH_SEPARATOR)))

LengthFound ==
    /\ pc = "receive" /\ rphase = "len"
    /\ \/ pc' = "receive" /\ rphase' = "body"
       \/ pc' = "wait_for_data"
       \/ pc' = "fatal" /\ err' \in {TOO_LONG, LENGTH_MISMATCH}

C15_FrameAcceptance ==
    /\ [](Returned => /\ msg_length < max_total_receive_bytes
                       /\ Len(rbuf) = msg_length
                       /\ data = Decoded(rbuf))
    /\ []((pc = "receive" /\ rphase = "body")
            => (msg_length < max_total_receive_bytes /\ Len(rbuf) < msg_length))
    /\ []((pc = "fatal" /\ err = LENGTH_MISMATCH)
            => (Len(rbuf) > msg_length /\ data = NoData))
    /\ [][LengthFound
            => /\ msg_length' = DeclaredLength(consumed')
               /\ msg_length' >= max_total_receive_bytes
                     => (pc' = "fatal" /\ err' = TOO_LONG /\ data' = NoData)]_vars

\* inside an episode-batch a frame declaring exactly the maximum was refused
C15_Witness ==
    /\ pc = "fatal" /\ err = TOO_LONG /\ site = "round"
    /\ msg_length = max_total_receive_bytes
    /\ data = NoData

(* C16: bounded prefix search.  A length is accepted only when the         *)
(* separator begins within the first MAX_MSG_PREFIX_LENGTH bytes read for  *)
(* the frame, so that no prefix longer than the budget is accepted; once   *)
(* the bytes read reach past the budget and the separator without holding  *)
(* a separator in that range the call has failed; and no read is issued    *)
(* when MAX_MSG_PREFIX_LENGTH bytes have arrived without a separator.      *)
PrefixBudget == MAX_MSG_PREFIX_LENGTH + Len(MSG_LENGTH_SEPARATOR)
LengthAccepted == (pc = "receive" /\ rphase = "body") \/ Returned

C16_BoundedPrefixSearch ==
    /\ [](LengthAccepted
            => Find(consumed, MSG_LENGTH_SEPARATOR) \in 0..MAX_MSG_PREFIX_LENGTH)
    /\ []((Len(consumed) >= PrefixBudget
             /\ Find(Take(consumed, PrefixBudget), MSG_LENGTH_SEPARATOR) = -1)
            => pc = "fatal")
    /\ []((pc = "receive" /\ rphase = "len")
            => Len(consumed) < MAX_MSG_PREFIX_LENGTH)

(* C17: episode-batch completion.  The round of an extended batch whose    *)
(* first entry's done mapping has the all-key set makes no decision call   *)
(* and sends nothing; the step that follows sends one acknowledgment and   *)
(* adds the number of parallel instances to the completed-games counter;   *)
(* back at the loop test that acknowledgment is the client's whole         *)
(* response to the batch.                                                  *)
CompletionBatch ==
    /\ data.type = "batch" /\ Len(data.entries) > 0 /\ data.shape = 5
    /\ data.entries[1].is_done[ALL_KEY]

C17_BatchCompletion ==
    /\ [][(pc = "main_round" /\ CompletionBatch)
            => /\ pc' = "main_batch_end"
               /\ ~call'.made
               /\ outbox' = outbox /\ log' = log
               /\ UNCHANGED <<states, prev_actions, num_games>>]_vars
    /\ [](pc = "main_batch_end" => (CompletionBatch /\ ~call.made))
    /\ [][pc = "main_batch_end"
            => /\ outbox' = Append(outbox, Sent(OK_MSG, << >>))
               /\ num_games' = num_games + num_parallel_games
               /\ ~call'.made
               /\ pc' = "main_while"]_vars
    /\ []((pc = "main_while" /\ num_iters > 0)
            => (outbox = <<Sent(OK_MSG, << >>)>> /\ log = <<"send_ok">>))

\* the completion of an episode-batch of two instances was acknowledged
C17_Witness ==
    /\ pc = "main_while" /\ num_iters = 1 /\ num_games = 2
    /\ CompletionBatch /\ Len(data.entries) = 2
    /\ outbox = <<Sent(OK_MSG, << >>)>>

(* C18: slot reset between episode-batches.  In the first round of every   *)
(* episode-batch (the round that follows the acknowledgment of the         *)
(* metadata or of a completed batch) there are N slots and each holds the  *)
(* fresh decision-state, no previous action and no previous reward; a      *)
(* decision call of that round gets fresh states, no previous actions and  *)
(* no previous rewards but those of the batch it answers.                  *)
FirstRound == pc = "main_round" /\ log[1] = "send_ok"

C18_SlotReset ==
    /\ [](FirstRound
            => /\ DOMAIN states = Slots
               /\ DOMAIN prev_actions = Slots
               /\ DOMAIN prev_rewards = Slots
               /\ \A i \in Slots : /\ states[i] = INITIAL_STATE
                                    /\ prev_actions[i] = None
                                    /\ prev_rewards[i] = None)
    /\ [][(FirstRound /\ call'.made)
            => /\ \A k \in 1..Len(call'.states) :
                     call'.states[k] = INITIAL_STATE
               /\ call'.prev_actions.none
               /\ IF data.shape = 5
                  THEN call'.prev_rewards.list =
                          [k \in 1..Len(data.entries) |->
                              data.entries[k].reward[Str(player_index)]]
                  ELSE call'.prev_rewards.none]_vars

\* the first decision call of the second episode-batch of a one-instance
\* session, whose slot got a reward from the completion of the first
C18_Witness ==
    /\ num_parallel_games = 1 /\ num_iters = 1
    /\ call.made /\ call.states = <<INITIAL_STATE>>
    /\ call.prev_actions.none /\ call.prev_rewards.none

(* C19: alignment failure leaves state unchanged.  When the decision       *)
(* function returns a state list whose length differs from the index       *)
(* list, the round fails with the alignment assertion and the              *)
(* decision-states (and the previous actions, not reached) are as before;  *)
(* when only the action list differs in length, the round fails the same   *)
(* way and the previous actions are as before.                             *)
ALIGNMENT_FAILURE ==
    "AssertionError: length of indices to update and values to update with must match"

C19_AlignmentFailureAtomic ==
    [][(pc = "main_round" /\ call'.made)
        => LET n == Len(call'.indices) IN
           /\ Len(call'.new_states) # n
                 => /\ pc' = "fatal" /\ err' = ALIGNMENT_FAILURE
                    /\ states' = states /\ prev_actions' = prev_actions
           /\ (Len(call'.new_states) = n /\ Len(call'.actions) # n)
                 => /\ pc' = "fatal" /\ err' = ALIGNMENT_FAILURE
                    /\ prev_actions' = prev_actions]_vars

\* three states were returned for two indices, one of them naming a slot
\* written by an earlier round: the slots are as they were gathered
C19_Witness ==
    /\ pc = "fatal" /\ err = ALIGNMENT_FAILURE
    /\ call.made /\ Len(call.indices) = 2 /\ Len(call.new_states) = 3
    /\ call.states[1] # call.states[2]
    /\ \A k \in 1..2 : states[call.indices[k]] = call.states[k]

(* C20: game-counter invariant.  In every state the completed-games        *)
(* counter is N times the number of completed episode-batches.  With a     *)
(* maximum K the loop body runs only while the counter is below K, the     *)
(* number of completed batches never exceeds ceil(K/N), and when the loop  *)
(* has exited it is ceil(K/N): the counter is then the smallest multiple   *)
(* of N that is at least K, less than N above K.                           *)
CeilDiv(a, b) == (a + b - 1) \div b

C20_GameCounter ==
    num_parallel_games # None =>
        /\ num_games = num_parallel_games * num_iters
        /\ max_num_games # None =>
              /\ num_iters <= CeilDiv(max_num_games, num_parallel_games)
              /\ (site = "round" /\ pc \notin {"main_while", "done"})
                    => num_games < max_num_games
              /\ pc = "done"
                    => /\ num_iters = CeilDiv(max_num_games, num_parallel_games)
                       /\ num_games >= max_num_games
                       /\ num_games - max_num_games < num_parallel_games
                       /\ \A m \in 0..num_games :
                             (m % num_parallel_games = 0 /\ m >= max_num_games)
                                => m >= num_games

\* one episode-batch of two instances ended a session of at most one game
C20_Witness ==
    /\ pc = "done" /\ max_num_games = 1 /\ num_parallel_games = 2
    /\ num_games = 2 /\ num_iters = 1

====
